---- MODULE Spec2Model ----
(***************************************************************************)
(* A model of the Si1000 weewx driver (src/weewx/Si1000.py): the line      *)
(* decoder (process_line with its converters convert_rain and              *)
(* adjust_wind_direction and the raw-data log), and the packet generators  *)
(* built on it.                                                            *)
(*                                                                         *)
(* Text.  A line is a sequence of tokens.  A token is a record [k, v]:     *)
(*   k = " "   one whitespace character                                    *)
(*   k = "{"   an opening brace,  k = "}"  a closing brace                 *)
(*   k = "x"   one character that is none of the above (noise)             *)
(*   any other k: the JSON member  "k": v  (with the separating comma)     *)
(* Time.  The clock counts half seconds, so that int(time.time() + 0.5)    *)
(* is a real rounding.  Rain is counted in tenths of an inch, so that      *)
(* ret * 0.1 is the integer ret.                                           *)
(***************************************************************************)
EXTENDS Integers, Sequences, FiniteSets, TLC

VARIABLES
    last_rain,        \* self.last_rain: <<>> is None, <<r>> is the counter r
    wind_dir_adjust,  \* self.wind_dir_adjust
    rawlogdir,        \* self.rawlogdir is not None
    rawlog,           \* the lines appended to the raw log files, in order
    now,              \* time.time(), in half seconds
    call,             \* the last call made on the decoder and its outcome
    spoons,           \* the argument of the last convert_rain call (<<>>: none yet)
    ncalls,           \* number of process_line calls made directly
    fs,               \* the files under self.port: path -> lines
    fs0,              \* the files as they were when they appeared
    gen,              \* the generator of each consumer context
    running,          \* the context whose generator is executing, or "none"
    starts,           \* number of generators created
    emitted,          \* the (file, line) pairs handed to a consumer
    dup,              \* those handed to a consumer more than once
    directory_mode,   \* self.directory_mode: self.port is a directory
    fd                \* the lines waiting in the serial port self.fd, oldest first

decoder == <<last_rain, wind_dir_adjust, rawlogdir, rawlog, now, call, spoons, ncalls>>
device == <<directory_mode, fd>>
replay == <<fs, fs0, gen, running, starts, emitted, dup, device>>
vars == <<decoder, replay>>

---------------------------------------------------------------------------
(* Bounds of the model *)

MaxDecodes == 2
MaxTicks == 2
MaxStarts == 2
MaxDirection == 400
MaxLines == 2
MaxBuffered == 2

---------------------------------------------------------------------------
(* Tokens and text *)

SP == [k |-> " ", v |-> 0]
LB == [k |-> "{", v |-> 0]
RB == [k |-> "}", v |-> 0]
JUNK == [k |-> "x", v |-> 0]

Member(key, value) == [k |-> key, v |-> value]

IsMember(t) == t.k \notin {" ", "{", "}", "x"}

SetMin(S) == CHOOSE x \in S : \A y \in S : x <= y
SetMax(S) == CHOOSE x \in S : \A y \in S : y <= x

\* no stripping at all
strip_not(line) == line

\* str.strip(): drop the leading and the trailing whitespace
strip(line) ==
    LET idx == {i \in 1..Len(line) : line[i] # SP}
    IN  IF idx = {} THEN <<>> ELSE SubSeq(line, SetMin(idx), SetMax(idx))

\* json.loads(line) succeeds: an object whose members are separated by
\* optional whitespace; anything else between the braces is a ValueError
\* (whitespace around the object is allowed too)
json_ok(line) ==
    LET s == strip(line)
    IN  /\ Len(s) >= 2
        /\ s[1] = LB
        /\ s[Len(s)] = RB
        /\ \A i \in 2..(Len(s) - 1) : IsMember(s[i]) \/ s[i] = SP

\* json.loads(line): the dict; a repeated key keeps its last value
json_loads(line) ==
    LET at == {i \in 1..Len(line) : IsMember(line[i])}
        keys == {line[i].k : i \in at}
    IN  [key \in keys |-> line[SetMax({i \in at : line[i].k = key})].v]

---------------------------------------------------------------------------
(* The decoder *)

US == 1

None == <<>>

\* int(time.time() + 0.5), the clock t in half seconds
int_time(t) == (t + 1) \div 2

\* time.strftime('%Y%m%d.log'): the calendar day of the clock
strftime(t) == t \div (2 * 86400)

\* the table without its humidity entry
fieldmap_nohumidity ==
    [wind_direction_degrees |-> [name |-> "windDir", conversion |-> "adjust_wind_direction"],
     wind_speed_mph         |-> [name |-> "windSpeed", conversion |-> "None"],
     temperature_F          |-> [name |-> "outTemp", conversion |-> "None"],
     rain_spoons            |-> [name |-> "rain", conversion |-> "convert_rain"],
     timestamp_utc          |-> [name |-> "dateTime", conversion |-> "None"]]

fieldmap ==
    [wind_direction_degrees |-> [name |-> "windDir", conversion |-> "adjust_wind_direction"],
     wind_speed_mph         |-> [name |-> "windSpeed", conversion |-> "None"],
     temperature_F          |-> [name |-> "outTemp", conversion |-> "None"],
     humidity_pct           |-> [name |-> "humidity", conversion |-> "None"],
     rain_spoons            |-> [name |-> "rain", conversion |-> "convert_rain"],
     timestamp_utc          |-> [name |-> "dateTime", conversion |-> "None"]]

log_rawdata(logdir, log, t, values) ==
    IF ~logdir THEN log
    ELSE Append(log, [path |-> strftime(t), line |-> values])

\* convert_rain without the correction of a wrapped counter
convert_rain_nowrap(lr, rain_spoons) ==
    IF lr = <<>>
    THEN [ret |-> 0, last_rain |-> <<rain_spoons>>]
    ELSE [ret |-> rain_spoons - lr[1], last_rain |-> <<rain_spoons>>]

\* convert_rain without line 108: the counter of the first call is kept
convert_rain_keepfirst(lr, rain_spoons) ==
    IF lr = <<>>
    THEN [ret |-> 0, last_rain |-> <<rain_spoons>>]
    ELSE LET ret == rain_spoons - lr[1]
         IN  [ret |-> IF ret < 0 THEN 128 + ret ELSE ret, last_rain |-> lr]

\* returns the result and the new self.last_rain
convert_rain(lr, rain_spoons) ==
    IF lr = None
    THEN [ret |-> 0, last_rain |-> <<rain_spoons>>]
    ELSE LET ret == rain_spoons - lr[1]
         IN  [ret |-> IF ret < 0 THEN 128 + ret ELSE ret,
              last_rain |-> <<rain_spoons>>]

\* adjust_wind_direction reducing a sum of exactly 360 too
adjust_wind_direction_ge(adjust, direction) ==
    LET d == direction + adjust
    IN  IF d >= 360 THEN d - 360 ELSE d

adjust_wind_direction(adjust, direction) ==
    LET d == direction + adjust
    IN  IF d > 360 THEN d - 360 ELSE d

NoPacket == [n \in {} |-> 0]

\* the inspection of line 122 done on the trimmed line
braced_stripped(line) ==
    LET s == strip(line)
    IN  s # <<>> /\ s[1] = LB /\ s[Len(s)] = RB

\* the inspection of line 122 with "and" for "or": one brace is enough
braced_either(line) == line[1] = LB \/ line[Len(line)] = RB

\* line 122, negated: the line starts with '{' and ends with '}'
braced(line) == line[1] = LB /\ line[Len(line)] = RB

\* lines 128-129 setting the timestamp whether or not the record has one
stamp_always(loaded, t) ==
    [key \in DOMAIN loaded \cup {"timestamp_utc"} |->
        IF key = "timestamp_utc" THEN int_time(t) ELSE loaded[key]]

\* lines 128-129: timestamp_utc is set from the clock if the record has none
stamp(loaded, t) ==
    IF "timestamp_utc" \notin DOMAIN loaded
    THEN [key \in DOMAIN loaded \cup {"timestamp_utc"} |->
            IF key = "timestamp_utc" THEN int_time(t) ELSE loaded[key]]
    ELSE loaded

\* lines 133-143: the packet of a record, and self.last_rain after the
\* conversions
map_fields(values, lr, adjust) ==
    LET mapped == DOMAIN values \cap DOMAIN fieldmap
        rain == IF "rain_spoons" \in mapped
                THEN convert_rain(lr, values["rain_spoons"])
                ELSE [ret |-> 0, last_rain |-> lr]
        conv(key) ==
            IF fieldmap[key].conversion = "convert_rain" THEN rain.ret
            ELSE IF fieldmap[key].conversion = "adjust_wind_direction"
                 THEN adjust_wind_direction(adjust, values[key])
            ELSE values[key]
        names == {fieldmap[key].name : key \in mapped} \cup {"usUnits"}
    IN  [packet |->
            [n \in names |->
                IF n = "usUnits" THEN US
                ELSE conv(CHOOSE key \in mapped : fieldmap[key].name = n)],
         last_rain |-> rain.last_rain]

\* an outcome of process_line that leaves the decoder as it was
Returned(kind, lr, log) ==
    [kind |-> kind, packet |-> NoPacket, last_rain |-> lr, rawlog |-> log]

\* process_line returning None for a line that json.loads rejects
process_line_skipbad(line, lr, adjust, logdir, log, t) ==
    IF line = <<>> THEN Returned("IndexError", lr, log)
    ELSE IF ~braced(line) \/ ~json_ok(line) THEN Returned("None", lr, log)
    ELSE
        LET values == stamp(json_loads(line), t)
            m == map_fields(values, lr, adjust)
        IN  [kind |-> "packet", packet |-> m.packet, last_rain |-> m.last_rain,
             rawlog |-> log_rawdata(logdir, log, t, values)]

\* process_line logging the record before lines 128-129 give it a timestamp
process_line_logfirst(line, lr, adjust, logdir, log, t) ==
    IF line = <<>> THEN Returned("IndexError", lr, log)
    ELSE IF ~braced(line) THEN Returned("None", lr, log)
    ELSE IF ~json_ok(line) THEN Returned("ValueError", lr, log)
    ELSE
        LET values == stamp(json_loads(line), t)
            m == map_fields(values, lr, adjust)
        IN  [kind |-> "packet", packet |-> m.packet, last_rain |-> m.last_rain,
             rawlog |-> log_rawdata(logdir, log, t, json_loads(line))]

\* process_line(line) on a decoder with self.last_rain = lr, self.rawlogdir
\* set or not (logdir), wind_dir_adjust = adjust, at clock t.  The result:
\* kind "None" (returned None), "packet", or the exception raised; with the
\* decoder's last_rain and the raw log after the call.
process_line(line, lr, adjust, logdir, log, t) ==
    IF line = <<>> THEN Returned("IndexError", lr, log)
    ELSE IF ~braced(line) THEN Returned("None", lr, log)
    ELSE IF ~json_ok(line) THEN Returned("ValueError", lr, log)
    ELSE
        LET values == stamp(json_loads(line), t)
            m == map_fields(values, lr, adjust)
        IN  [kind |-> "packet", packet |-> m.packet, last_rain |-> m.last_rain,
             rawlog |-> log_rawdata(logdir, log, t, values)]

---------------------------------------------------------------------------
(* Calls on the decoder.  call records the last call: its arguments, the   *)
(* decoder's state before it (the pre_ fields), and its outcome.           *)

NoPath == [dir |-> <<>>, name |-> <<>>]

\* ctx, id, path, idx: the generator that made the call and the line of the
\* file it read (a direct call has none)
NoCall ==
    [op |-> "none", line |-> <<>>, arg |-> 0, kind |-> "None", ret |-> 0,
     packet |-> NoPacket, pre_last_rain |-> None, pre_rawlog |-> <<>>,
     pre_now |-> 0, pre_spoons |-> <<>>,
     ctx |-> "none", id |-> 0, path |-> NoPath, idx |-> 0]

\* The rain counter a line hands to convert_rain, as text: the value of its
\* last "rain_spoons" member, if the line is an object that parses
LineSpoons(line) ==
    LET at == {i \in 1..Len(line) : line[i].k = "rain_spoons"}
    IN  IF at = {} THEN <<>> ELSE <<line[SetMax(at)].v>>

NowStart == 2 * 1605

\* the clock stands still at the horizon of the model
Horizon == NowStart + MaxTicks

Ctx == {"archive", "loop"}

EmptyDir == [p \in {} |-> <<>>]

\* a generator: where it stands (pc), the exception that ended it (err), the
\* os.walk it is in (todo: directories still to list, root: the one being
\* read, files: its sorted file names still to open), the open file (path,
\* lines, pos: lines read), and for the pass it is in: out, the (file, line)
\* pairs genLoopPackets_directory has yielded, listed, the files os.walk has
\* enumerated; first_rain: the rain of the first rain-bearing record this
\* generator decoded; dts: the dateTime of each packet of out; given: the
\* (file, line) pairs of the pass that reached the consumer; passes: the
\* passes begun (2 stands for two or more); slept: the time.sleep calls made
\* since the pass last listed a directory or was last resumed; last: what the
\* last line read from the serial port came to
NoGen ==
    [pc |-> "absent", err |-> "", id |-> 0, since |-> 0, todo |-> {},
     root |-> <<>>, files |-> <<>>, path |-> NoPath, lines |-> <<>>, pos |-> 0,
     out |-> <<>>, listed |-> {}, first_rain |-> <<>>,
     dts |-> <<>>, given |-> <<>>, passes |-> 0, slept |-> 0, last |-> ""]

WindAdjusts == {-90, 0, 180, 360}

\* a direct call self.convert_rain(r)
ConvertRain(r) ==
    LET res == convert_rain(last_rain, r)
    IN  /\ last_rain' = res.last_rain
        /\ spoons' = <<r>>
        /\ call' = [NoCall EXCEPT !.op = "convert_rain", !.arg = r,
                        !.kind = "value", !.ret = res.ret,
                        !.pre_last_rain = last_rain, !.pre_rawlog = rawlog,
                        !.pre_now = now, !.pre_spoons = spoons]
        /\ UNCHANGED <<wind_dir_adjust, rawlogdir, rawlog, now, ncalls, replay>>

\* a direct call self.adjust_wind_direction(d)
AdjustWind(d) ==
    /\ call' = [NoCall EXCEPT !.op = "adjust_wind_direction", !.arg = d,
                    !.kind = "value",
                    !.ret = adjust_wind_direction(wind_dir_adjust, d),
                    !.pre_last_rain = last_rain, !.pre_rawlog = rawlog,
                    !.pre_now = now, !.pre_spoons = spoons]
    /\ UNCHANGED <<last_rain, wind_dir_adjust, rawlogdir, rawlog, now, spoons, ncalls, replay>>

\* a direct call self.process_line(line)
ProcessLine(line) ==
    LET res == process_line(line, last_rain, wind_dir_adjust, rawlogdir, rawlog, now)
    IN  /\ ncalls < MaxDecodes
        /\ ncalls' = ncalls + 1
        /\ last_rain' = res.last_rain
        /\ rawlog' = res.rawlog
        /\ spoons' = IF res.kind = "packet" /\ LineSpoons(line) # <<>>
                      THEN LineSpoons(line) ELSE spoons
        /\ call' = [NoCall EXCEPT !.op = "process_line", !.line = line,
                        !.kind = res.kind, !.packet = res.packet,
                        !.pre_last_rain = last_rain, !.pre_rawlog = rawlog,
                        !.pre_now = now, !.pre_spoons = spoons]
        /\ UNCHANGED <<wind_dir_adjust, rawlogdir, now, replay>>

\* the wall clock advances by half a second
Tick ==
    /\ now < NowStart + MaxTicks
    /\ now' = now + 1
    /\ UNCHANGED <<last_rain, wind_dir_adjust, rawlogdir, rawlog, call, spoons, ncalls, replay>>

\* Si1000.__init__: a fresh decoder
InitDecoder ==
    /\ last_rain = None
    /\ wind_dir_adjust \in WindAdjusts
    /\ rawlogdir \in BOOLEAN
    /\ rawlog = <<>>
    /\ now = NowStart
    /\ call = NoCall
    /\ spoons = <<>>
    /\ ncalls = 0
    /\ fs = EmptyDir
    /\ fs0 = EmptyDir
    /\ gen = [g \in Ctx |-> NoGen]
    /\ running = "none"
    /\ starts = 0
    /\ emitted = {}
    /\ dup = {}
    /\ directory_mode = TRUE
    /\ fd = <<>>

---------------------------------------------------------------------------
(* SpecRain: any sequence of raw 7-bit rain counters fed to convert_rain   *)
(* on a fresh decoder.                                                      *)

RainCounters == 0..127

InitRain == InitDecoder /\ wind_dir_adjust = 180 /\ ~rawlogdir

NextRain == \E r \in RainCounters : ConvertRain(r)

SpecRain == InitRain /\ [][NextRain]_vars

\* C1: on a fresh decoder the first convert_rain returns 0 counts, and every
\* later one returns ((r_i - r_{i-1} + 128) mod 128) counts of 0.1, where
\* r_{i-1} is the counter passed to the call before it; so an increment is
\* in 0..127 and never negative.
C1_RainIncrement ==
    call.op = "convert_rain" =>
        /\ call.pre_spoons = <<>> => call.ret = 0
        /\ call.pre_spoons # <<>> =>
                call.ret = (call.arg - call.pre_spoons[1] + 128) % 128
        /\ call.ret \in 0..127

\* the wrap case of the spec: counter 5, then counter 3, gives 126 counts
C1_Witness ==
    /\ call.op = "convert_rain"
    /\ call.pre_spoons = <<5>>
    /\ call.arg = 3
    /\ call.ret = 126

(* SpecWind: adjust_wind_direction called with any direction, on a decoder *)
(* that has or has not seen rain.                                           *)

Directions == 0..MaxDirection

NextWind ==
    \/ \E d \in Directions : AdjustWind(d)
    \/ \E r \in {3, 5} : last_rain = None /\ ConvertRain(r)

SpecWind == InitDecoder /\ [][NextWind]_vars

\* C8: adjust_wind_direction(d) is d + offset when that is at most 360 and
\* d + offset - 360 otherwise (one subtraction, so a sum of 360 stays 360),
\* and the call changes nothing of the decoder.
C8_WindAdjust ==
    call.op = "adjust_wind_direction" =>
        /\ call.ret = IF call.arg + wind_dir_adjust <= 360
                      THEN call.arg + wind_dir_adjust
                      ELSE call.arg + wind_dir_adjust - 360
        /\ last_rain = call.pre_last_rain
        /\ rawlog = call.pre_rawlog
        /\ spoons = call.pre_spoons

\* a sum of exactly 360 with the default offset, on a decoder that has seen rain
C8_Witness ==
    /\ call.op = "adjust_wind_direction"
    /\ wind_dir_adjust = 180
    /\ call.arg = 180
    /\ call.ret = 360
    /\ last_rain # None

---------------------------------------------------------------------------
(* SpecDecode: process_line called directly with any line of Lines, the    *)
(* clock running.                                                           *)

TS == Member("timestamp_utc", 1000)
Rain5 == Member("rain_spoons", 5)
Rain3 == Member("rain_spoons", 3)
Temp == Member("temperature_F", 72)
Pressure == Member("pressure_hpa", 1013)

Members ==
    {Member("wind_direction_degrees", 200), Member("wind_speed_mph", 7), Temp,
     Member("humidity_pct", 40), Rain5, Rain3, TS, Pressure}

AllMembers ==
    <<Member("wind_direction_degrees", 200), Member("wind_speed_mph", 7), Temp,
      Member("humidity_pct", 40), Rain5, TS>>

Object(m) == <<LB>> \o m \o <<RB>>

\* the objects: empty, one member, one member and a timestamp, every known
\* member, a repeated key
Objects ==
    {Object(m) : m \in {<<>>, AllMembers, <<Rain5, Rain3>>}
                        \cup {<<a>> : a \in Members}
                        \cup {<<a, TS>> : a \in Members}}

\* lines that are no object
Noise ==
    {<<JUNK>>, <<LB>>, <<RB>>, <<LB, JUNK>>, <<JUNK, RB>>, <<RB, LB>>,
     <<LB, JUNK, RB>>, <<LB, LB, RB>>, <<LB, TS, JUNK, RB>>, <<LB, SP, RB>>}

\* lines with and without whitespace around them, the empty line among them
Padded ==
    {pre \o b \o post :
        pre \in {<<>>, <<SP>>}, post \in {<<>>, <<SP>>},
        b \in {<<>>, <<JUNK>>, <<LB, JUNK, RB>>, Object(<<Temp, TS>>), Object(<<Rain5>>)}}

Lines == Objects \cup Noise \cup Padded

InitDecode == InitDecoder /\ wind_dir_adjust \in {0, 180}

NextDecode ==
    \/ \E line \in Lines : ProcessLine(line)
    \/ Tick

SpecDecode == InitDecode /\ [][NextDecode]_vars

LineHas(line, key) == \E i \in 1..Len(line) : line[i].k = key

\* the value of the last member with this key
LineValue(line, key) ==
    line[SetMax({i \in 1..Len(line) : line[i].k = key})].v

\* C3: a packet returned by process_line has dateTime and usUnits, and has
\* each of outTemp, windSpeed, windDir, humidity, rain exactly when the line
\* has the raw field; fields outside the table add no key, and a line that
\* is an object of members always gives a packet.
C3_PacketFields ==
    call.op = "process_line" =>
        /\ call.kind = "packet" =>
            /\ {"dateTime", "usUnits"} \subseteq DOMAIN call.packet
            /\ "outTemp" \in DOMAIN call.packet <=> LineHas(call.line, "temperature_F")
            /\ "windSpeed" \in DOMAIN call.packet <=> LineHas(call.line, "wind_speed_mph")
            /\ "windDir" \in DOMAIN call.packet <=> LineHas(call.line, "wind_direction_degrees")
            /\ "humidity" \in DOMAIN call.packet <=> LineHas(call.line, "humidity_pct")
            /\ "rain" \in DOMAIN call.packet <=> LineHas(call.line, "rain_spoons")
            /\ DOMAIN call.packet \subseteq
                  {"dateTime", "usUnits", "outTemp", "windSpeed", "windDir", "humidity", "rain"}
            /\ call.packet["usUnits"] = US
        /\ call.line \in Objects => call.kind = "packet"

\* {"pressure_hpa": 1013} gives a packet with the two base fields only
C3_Witness ==
    /\ call.op = "process_line"
    /\ call.line = Object(<<Pressure>>)
    /\ call.kind = "packet"
    /\ DOMAIN call.packet = {"dateTime", "usUnits"}

\* C4: dateTime is the record's timestamp_utc when it has one, and only
\* otherwise the clock at the call rounded to the nearest second (the clock
\* is in half seconds: a half rounds up).
C4_Timestamp ==
    call.op = "process_line" /\ call.kind = "packet" =>
        IF LineHas(call.line, "timestamp_utc")
        THEN call.packet["dateTime"] = LineValue(call.line, "timestamp_utc")
        ELSE 2 * call.packet["dateTime"] - call.pre_now \in {0, 1}

\* a record with timestamp_utc decoded after one without, which was stamped
\* with the clock rounded up
C4_Witness ==
    /\ call.op = "process_line"
    /\ call.kind = "packet"
    /\ LineHas(call.line, "timestamp_utc")
    /\ call.packet["dateTime"] = 1000
    /\ Len(call.pre_rawlog) = 1
    /\ 2 * call.pre_rawlog[1].line["timestamp_utc"] = call.pre_now + 1

\* C5: a non-empty line that does not start with '{' or does not end with
\* '}' returns None, raises nothing, and leaves the raw log and the rain
\* counter as they were.
C5_NotBraced ==
    call.op = "process_line" /\ call.line # <<>>
        /\ (call.line[1] # LB \/ call.line[Len(call.line)] # RB) =>
            /\ call.kind = "None"
            /\ rawlog = call.pre_rawlog
            /\ last_rain = call.pre_last_rain

\* "{x" on a decoder that logs and has a rain counter
C5_Witness ==
    /\ call.op = "process_line"
    /\ call.line = <<LB, JUNK>>
    /\ call.kind = "None"
    /\ rawlogdir
    /\ Len(rawlog) = 1
    /\ last_rain = <<5>>

\* C6 as the spec states it: decoding a line gives what decoding its trimmed
\* form gives, and a line empty after trimming returns None.
C6_TrimsItself ==
    call.op = "process_line" =>
        LET s == strip(call.line)
            t == process_line(s, call.pre_last_rain, wind_dir_adjust,
                              rawlogdir, call.pre_rawlog, call.pre_now)
        IN  IF s = <<>> THEN call.kind = "None"
            ELSE /\ call.kind = t.kind
                 /\ call.packet = t.packet
                 /\ last_rain = t.last_rain
                 /\ rawlog = t.rawlog

\* C6 amended: process_line inspects the line as it is given: the empty
\* line raises IndexError, and a non-empty line that starts or ends with
\* whitespace returns None and changes nothing, whatever its trimmed form.
C6_NoTrim ==
    call.op = "process_line" =>
        /\ call.line = <<>> => call.kind = "IndexError"
        /\ call.line # <<>>
              /\ (call.line[1] = SP \/ call.line[Len(call.line)] = SP) =>
                /\ call.kind = "None"
                /\ rawlog = call.pre_rawlog
                /\ last_rain = call.pre_last_rain

\* a valid object with whitespace around it returns None
C6_Witness ==
    /\ call.op = "process_line"
    /\ call.line = <<SP>> \o Object(<<Temp, TS>>) \o <<SP>>
    /\ call.kind = "None"

---------------------------------------------------------------------------
(* The directory self.port.  A file or directory name is the sequence of   *)
(* the code points of its characters; the root directory has the empty     *)
(* name, and every other directory is directly under it.                   *)

DOT == 46

NameA == <<97>>
NameB == <<98>>
NameDotH == <<DOT, 104>>
Root == <<>>
DirS == <<115>>
DirDotD == <<DOT, 100>>

SubDirs == {DirS, DirDotD}

File(dir, name) == [dir |-> dir, name |-> name]

\* a < b for strings, by code point
StrLess(a, b) ==
    \E k \in 0..Len(a) :
        /\ k <= Len(b)
        /\ \A i \in 1..k : a[i] = b[i]
        /\ \/ k = Len(a) /\ k < Len(b)
           \/ k < Len(a) /\ k < Len(b) /\ a[k + 1] < b[k + 1]

\* the names in decreasing order
RECURSIVE sorted_reverse(_)
sorted_reverse(names) ==
    IF names = {} THEN <<>>
    ELSE LET m == CHOOSE x \in names : \A y \in names \ {x} : StrLess(y, x)
         IN  <<m>> \o sorted_reverse(names \ {m})

\* sorted(files), line 164
RECURSIVE sorted(_)
sorted(names) ==
    IF names = {} THEN <<>>
    ELSE LET m == CHOOSE x \in names : \A y \in names \ {x} : StrLess(x, y)
         IN  <<m>> \o sorted(names \ {m})

\* the files os.walk finds in a directory, line 163
listdir(dir) == {p.name : p \in {q \in DOMAIN fs : q.dir = dir}}

\* filename[0] == '.', line 166
hidden(filename) == filename[1] = DOT

\* the end of a line read from a file
NL == SP

TS1010 == Member("timestamp_utc", 1010)

TS1005 == Member("timestamp_utc", 1005)
TS1006 == Member("timestamp_utc", 1006)

RainFile == <<Object(<<Rain5, TS>>) \o <<NL>>, Object(<<Rain3, TS1010>>) \o <<NL>>>>
TempFile == <<Object(<<Temp, TS1010>>) \o <<NL>>>>
\* an empty line, noise, and a record with no timestamp and blanks around it
MixedFile == <<<<NL>>, <<JUNK, NL>>, <<SP>> \o Object(<<Temp>>) \o <<SP, NL>>>>
\* a line in braces that json.loads rejects, between two records
BadFile == <<Object(<<Temp, TS>>) \o <<NL>>, <<LB, JUNK, RB, NL>>,
             Object(<<Rain5, TS>>) \o <<NL>>>>

\* two records 600 seconds old, to the second, at the two times a first pass
\* can read them
PaceFile == <<Object(<<Temp, TS1005>>) \o <<NL>>, Object(<<Temp, TS1006>>) \o <<NL>>>>

\* the directories a run starts from
Directories ==
    {EmptyDir,
     File(Root, NameA) :> RainFile @@ File(Root, NameB) :> TempFile,
     File(Root, NameB) :> RainFile @@ File(DirS, NameA) :> MixedFile,
     File(Root, NameA) :> BadFile @@ File(Root, NameB) :> TempFile,
     File(Root, NameA) :> PaceFile,
     File(Root, NameDotH) :> TempFile @@ File(Root, NameA) :> <<>>
        @@ File(DirDotD, NameA) :> RainFile}

SinceTimes == {0, 1000}

---------------------------------------------------------------------------
(* The generators.  One generator runs at a time (running); it runs from   *)
(* the consumer's next() to its next yield, return or exception.           *)

Min(a, b) == IF a < b THEN a ELSE b

\* time.sleep(seconds): the clock afterwards
sleep(t, seconds) == Min(t + 2 * seconds, Horizon)

\* line 176: the packet is less than 600 seconds older than the clock t
recent_ge(packet, t) == 2 * (packet["dateTime"] + 600) >= t

recent(packet, t) == 2 * (packet["dateTime"] + 600) > t

\* line 187: the packet is later than since_ts
newer_ge(packet, since_ts) == packet["dateTime"] >= since_ts

newer(packet, since_ts) == packet["dateTime"] > since_ts

\* genArchiveRecords(since_ts) is called: a generator object, not yet run
genArchiveRecords(since_ts) ==
    /\ running = "none"
    /\ starts < MaxStarts
    /\ starts' = starts + 1
    /\ gen' = [gen EXCEPT !["archive"] =
                  [NoGen EXCEPT !.pc = "created", !.id = starts + 1, !.since = since_ts]]
    /\ UNCHANGED <<decoder, fs, fs0, running, emitted, dup, device>>

\* genLoopPackets() is called: a generator object, not yet run
genLoopPackets ==
    /\ running = "none"
    /\ starts < MaxStarts
    /\ starts' = starts + 1
    /\ gen' = [gen EXCEPT !["loop"] =
                  [NoGen EXCEPT !.pc = "created", !.id = starts + 1]]
    /\ UNCHANGED <<decoder, fs, fs0, running, emitted, dup, device>>

\* genArchiveRecords without its test of the mode
Pull_anymode(g) ==
    /\ running = "none"
    /\ gen[g].pc \in {"created", "yield"}
    /\ running' = g
    /\ gen' = [gen EXCEPT
                 ![g].pc = IF ~directory_mode /\ g = "loop" THEN "read"
                           ELSE IF gen[g].pc = "created" THEN "sleep"
                           ELSE "line",
                 ![g].slept = 0]
    /\ UNCHANGED <<decoder, fs, fs0, starts, emitted, dup, device>>

\* the consumer pulls: next() on a generator that is new or stands at its
\* yield.  A new genArchiveRecords raises at once when the port is no
\* directory (lines 184-185); a new genLoopPackets enters the loop of its
\* mode (lines 191-198)
Pull(g) ==
    /\ running = "none"
    /\ gen[g].pc \in {"created", "yield"}
    /\ IF gen[g].pc = "created" /\ g = "archive" /\ ~directory_mode
       THEN /\ gen' = [gen EXCEPT ![g].pc = "raised",
                                  ![g].err = "NotImplementedError"]
            /\ running' = running
       ELSE /\ running' = g
            /\ gen' = [gen EXCEPT
                         ![g].pc = IF ~directory_mode THEN "read"
                                   ELSE IF gen[g].pc = "created" THEN "sleep"
                                   ELSE "line",
                         ![g].slept = 0]
    /\ UNCHANGED <<decoder, fs, fs0, starts, emitted, dup, device>>

\* line 162: the pause that opens a pass
Sleep(g) ==
    /\ running = g
    /\ gen[g].pc = "sleep"
    /\ now' = sleep(now, 1)
    /\ gen' = [gen EXCEPT ![g].pc = "walk", ![g].todo = {Root},
                          ![g].out = <<>>, ![g].listed = {},
                          ![g].dts = <<>>, ![g].given = <<>>,
                          ![g].passes = Min(@ + 1, 2), ![g].slept = @ + 1]
    /\ UNCHANGED <<last_rain, wind_dir_adjust, rawlogdir, rawlog, call, spoons, ncalls,
                   fs, fs0, running, starts, emitted, dup, device>>

\* line 163: os.walk lists the next directory, the root first and then its
\* subdirectories in the order of the listing; or has no more
Walk(g) ==
    /\ running = g
    /\ gen[g].pc = "walk"
    /\ IF gen[g].todo = {}
       THEN gen' = [gen EXCEPT ![g].pc = "passend"]
       ELSE \E d \in gen[g].todo :
               gen' = [gen EXCEPT
                         ![g].pc = "file",
                         ![g].root = d,
                         ![g].files = sorted(listdir(d)),
                         ![g].listed = @ \cup {q \in DOMAIN fs : q.dir = d},
                         ![g].slept = 0,
                         ![g].todo = (@ \ {d}) \cup (IF d = Root THEN SubDirs ELSE {})]
    /\ UNCHANGED <<decoder, fs, fs0, running, starts, emitted, dup, device>>

\* lines 164-168: the next file name; a hidden one is passed over, another
\* is opened (IOError if it is gone)
NextFile(g) ==
    /\ running = g
    /\ gen[g].pc = "file"
    /\ IF gen[g].files = <<>>
       THEN gen' = [gen EXCEPT ![g].pc = "walk"] /\ running' = running
       ELSE LET filename == Head(gen[g].files)
                path == File(gen[g].root, filename)
            IN  IF hidden(filename)
                THEN gen' = [gen EXCEPT ![g].files = Tail(@)] /\ running' = running
                ELSE IF path \notin DOMAIN fs
                THEN /\ gen' = [gen EXCEPT ![g].pc = "raised", ![g].err = "IOError",
                                           ![g].files = Tail(@), ![g].path = path]
                     /\ running' = "none"
                ELSE /\ gen' = [gen EXCEPT ![g].pc = "line", ![g].files = Tail(@),
                                           ![g].path = path, ![g].lines = fs[path],
                                           ![g].pos = 0]
                     /\ running' = running
    /\ UNCHANGED <<decoder, fs, fs0, starts, emitted, dup, device>>

\* lines 169-178, and the consumer side of the yield (lines 186-188 for
\* genArchiveRecords, 194-195 for genLoopPackets): read the next line of the
\* open file, strip it, decode it, and pause before yielding a packet that
\* is less than 600 seconds old
ReadLine(g) ==
    /\ running = g
    /\ gen[g].pc = "line"
    /\ gen[g].pos < Len(gen[g].lines)
    /\ LET idx == gen[g].pos + 1
           line == strip(gen[g].lines[idx])
           res == process_line(line, last_rain, wind_dir_adjust, rawlogdir, rawlog, now)
           key == [path |-> gen[g].path, idx |-> idx]
           paced == recent(res.packet, now)
           wanted == g = "loop" \/ newer(res.packet, gen[g].since)
       IN  IF line = <<>>
           THEN /\ gen' = [gen EXCEPT ![g].pos = idx]
                /\ UNCHANGED <<decoder, running, emitted, dup>>
           ELSE /\ last_rain' = res.last_rain
                /\ rawlog' = res.rawlog
                /\ spoons' = IF res.kind = "packet" /\ LineSpoons(line) # <<>>
                             THEN LineSpoons(line) ELSE spoons
                /\ call' = [NoCall EXCEPT !.op = "process_line", !.line = line,
                               !.kind = res.kind, !.packet = res.packet,
                               !.pre_last_rain = last_rain, !.pre_rawlog = rawlog,
                               !.pre_now = now, !.pre_spoons = spoons,
                               !.ctx = g, !.id = gen[g].id,
                               !.path = gen[g].path, !.idx = idx]
                /\ UNCHANGED <<wind_dir_adjust, rawlogdir, ncalls>>
                /\ IF res.kind = "None"
                   THEN /\ gen' = [gen EXCEPT ![g].pos = idx]
                        /\ UNCHANGED <<now, running, emitted, dup>>
                   ELSE IF res.kind # "packet"
                   THEN /\ gen' = [gen EXCEPT ![g].pos = idx, ![g].pc = "raised",
                                              ![g].err = res.kind]
                        /\ running' = "none"
                        /\ UNCHANGED <<now, emitted, dup>>
                   ELSE /\ now' = IF paced THEN sleep(now, 1) ELSE now
                        /\ gen' = [gen EXCEPT
                                     ![g].pos = idx,
                                     ![g].out = Append(@, key),
                                     ![g].dts = Append(@, res.packet["dateTime"]),
                                     ![g].given = IF wanted THEN Append(@, key) ELSE @,
                                     ![g].slept = IF ~wanted THEN 0
                                                  ELSE IF paced THEN @ + 1 ELSE @,
                                     ![g].first_rain =
                                        IF @ = <<>> /\ "rain" \in DOMAIN res.packet
                                        THEN <<res.packet["rain"]>> ELSE @,
                                     ![g].pc = IF wanted THEN "yield" ELSE "line"]
                        /\ running' = IF wanted THEN "none" ELSE running
                        /\ emitted' = IF wanted THEN emitted \cup {key} ELSE emitted
                        /\ dup' = IF wanted /\ key \in emitted THEN dup \cup {key} ELSE dup
    /\ UNCHANGED <<fs, fs0, starts, device>>

\* the file deleted while lines of it are still to be read
Unlink_early(g) ==
    /\ running = g
    /\ gen[g].pc = "line"
    /\ IF gen[g].path \in DOMAIN fs
       THEN /\ fs' = [q \in DOMAIN fs \ {gen[g].path} |-> fs[q]]
            /\ gen' = [gen EXCEPT ![g].pc = "file"]
            /\ running' = running
       ELSE /\ fs' = fs
            /\ gen' = [gen EXCEPT ![g].pc = "raised", ![g].err = "OSError"]
            /\ running' = "none"
    /\ UNCHANGED <<decoder, fs0, starts, emitted, dup, device>>

\* lines 179-180: the lines are exhausted: close the file and delete it
\* (OSError if it is gone)
Unlink(g) ==
    /\ running = g
    /\ gen[g].pc = "line"
    /\ gen[g].pos = Len(gen[g].lines)
    /\ IF gen[g].path \in DOMAIN fs
       THEN /\ fs' = [q \in DOMAIN fs \ {gen[g].path} |-> fs[q]]
            /\ gen' = [gen EXCEPT ![g].pc = "file"]
            /\ running' = running
       ELSE /\ fs' = fs
            /\ gen' = [gen EXCEPT ![g].pc = "raised", ![g].err = "OSError"]
            /\ running' = "none"
    /\ UNCHANGED <<decoder, fs0, starts, emitted, dup, device>>

\* a pass that follows another without the pause of line 162
PassEnd_nopause(g) ==
    /\ running = g
    /\ gen[g].pc = "passend"
    /\ IF g = "archive"
       THEN gen' = [gen EXCEPT ![g].pc = "done"] /\ running' = "none"
       ELSE gen' = [gen EXCEPT ![g].pc = "walk", ![g].todo = {Root},
                               ![g].out = <<>>, ![g].listed = {},
                               ![g].dts = <<>>, ![g].given = <<>>]
            /\ running' = running
    /\ UNCHANGED <<decoder, fs, fs0, starts, emitted, dup, device>>

\* genLoopPackets_directory has returned: genArchiveRecords returns too
\* (lines 186-188), genLoopPackets starts the next pass (lines 193-195)
PassEnd(g) ==
    /\ running = g
    /\ gen[g].pc = "passend"
    /\ IF g = "archive"
       THEN gen' = [gen EXCEPT ![g].pc = "done"] /\ running' = "none"
       ELSE gen' = [gen EXCEPT ![g].pc = "sleep"] /\ running' = running
    /\ UNCHANGED <<decoder, fs, fs0, starts, emitted, dup, device>>

\* a driver in directory mode, with one of the directories
InitDir ==
    /\ last_rain = None
    /\ wind_dir_adjust = 180
    /\ rawlogdir \in BOOLEAN
    /\ rawlog = <<>>
    /\ now \in {NowStart - 2, NowStart}
    /\ call = NoCall
    /\ spoons = <<>>
    /\ ncalls = 0
    /\ fs \in Directories
    /\ fs0 = fs
    /\ gen = [g \in Ctx |-> NoGen]
    /\ running = "none"
    /\ starts = 0
    /\ emitted = {}
    /\ dup = {}
    /\ directory_mode = TRUE
    /\ fd = <<>>

NextDir ==
    \/ \E ts \in SinceTimes : genArchiveRecords(ts)
    \/ genLoopPackets
    \/ \E g \in Ctx :
        \/ Pull(g)
        \/ Sleep(g)
        \/ Walk(g)
        \/ NextFile(g)
        \/ ReadLine(g)
        \/ Unlink(g)
        \/ PassEnd(g)

SpecDir == InitDir /\ [][NextDir]_vars

\* C2 as the spec states it: each context has a rain counter of its own, so
\* the first rain-bearing record every generator decodes gives rain = 0.
C2_FirstRainZero ==
    \A g \in Ctx : gen[g].first_rain # <<>> => gen[g].first_rain[1] = 0

\* C2 amended: the rain counter is one field of the driver, shared by every
\* generator made from it: a rain-bearing record gives rain = 0 only if it
\* is the first the driver decodes, and otherwise the wrapped difference to
\* the rain_spoons of the rain-bearing record decoded before it, in
\* whichever context that one was decoded.
C2_SharedCounter ==
    call.op = "process_line" /\ call.kind = "packet"
        /\ LineHas(call.line, "rain_spoons") =>
            call.packet["rain"] =
                IF call.pre_spoons = <<>> THEN 0
                ELSE (LineValue(call.line, "rain_spoons") - call.pre_spoons[1] + 128) % 128

\* the first record the continuous stream decodes has rain, and its rain is
\* not 0, because a historical query decoded rain before
C2_Witness ==
    /\ call.ctx = "loop"
    /\ call.id = gen["loop"].id
    /\ call.idx = 1
    /\ Len(gen["loop"].out) = 1
    /\ "rain" \in DOMAIN call.packet
    /\ call.packet["rain"] # 0
    /\ gen["loop"].first_rain = <<call.packet["rain"]>>
    /\ gen["archive"].first_rain = <<0>>

\* C7: a line in braces that json.loads rejects makes process_line raise
\* ValueError: nothing is logged for it, the rain counter stays, the
\* generator that read it is ended by the exception (it does not go on to
\* the next line), the line is not handed to a consumer, and the file it
\* is in is still in the directory.
C7_ParseFailure ==
    call.op = "process_line"
        /\ call.line[1] = LB /\ call.line[Len(call.line)] = RB
        /\ (\E i \in 2..(Len(call.line) - 1) : call.line[i] \in {JUNK, LB, RB}) =>
            /\ call.kind = "ValueError"
            /\ rawlog = call.pre_rawlog
            /\ last_rain = call.pre_last_rain
            /\ call.path \in DOMAIN fs
            /\ [path |-> call.path, idx |-> call.idx] \notin emitted
            /\ gen[call.ctx].id = call.id =>
                /\ gen[call.ctx].pc = "raised"
                /\ gen[call.ctx].err = "ValueError"
                /\ gen[call.ctx].pos = call.idx
                /\ running # call.ctx

\* the second line of the file is rejected, after the first was logged
C7_Witness ==
    /\ call.op = "process_line"
    /\ call.kind = "ValueError"
    /\ call.idx = 2
    /\ rawlogdir
    /\ Len(rawlog) = 1
    /\ gen[call.ctx].pc = "raised"

\* a line that decodes to a packet, as text
Decodable(line) ==
    LET s == strip(line)
    IN  /\ Len(s) >= 2
        /\ s[1] = LB
        /\ s[Len(s)] = RB
        /\ \A i \in 2..(Len(s) - 1) : s[i] \notin {JUNK, LB, RB}

\* C9: the packets of a pass come in file-then-line order: those of one
\* file together and in the order of its lines, the files of one directory
\* in the order of their names; and when the pass has ended, every file it
\* enumerated whose name does not begin with '.' is gone from the directory
\* and every decodable line of such a file was yielded.
C9_ReplayPass ==
    \A g \in Ctx :
        LET o == gen[g].out
        IN  /\ \A i, j \in 1..Len(o) :
                i < j =>
                    /\ o[i].path = o[j].path =>
                        /\ o[i].idx < o[j].idx
                        /\ \A k \in i..j : o[k].path = o[i].path
                    /\ o[i].path # o[j].path /\ o[i].path.dir = o[j].path.dir =>
                        StrLess(o[i].path.name, o[j].path.name)
            /\ gen[g].pc \in {"passend", "done"} =>
                \A p \in gen[g].listed :
                    p.name[1] # DOT =>
                        /\ p \notin DOMAIN fs
                        /\ \A idx \in 1..Len(fs0[p]) :
                            Decodable(fs0[p][idx]) =>
                                \E i \in 1..Len(o) : o[i] = [path |-> p, idx |-> idx]

\* a pass over two files of the root has ended: three packets, both gone
C9_Witness ==
    \E g \in Ctx :
        /\ gen[g].pc = "passend"
        /\ gen[g].listed = {File(Root, NameA), File(Root, NameB)}
        /\ Len(gen[g].out) = 3
        /\ gen[g].out[2] = [path |-> File(Root, NameA), idx |-> 2]
        /\ gen[g].out[3] = [path |-> File(Root, NameB), idx |-> 1]
        /\ fs = EmptyDir

\* C10: no line of any file is handed to a consumer more than once.
C10_AtMostOnce == dup = {}

\* the packets of a pass that are later than since_ts, in the order of the pass
RECURSIVE Later(_, _, _)
Later(out, dts, since_ts) ==
    IF out = <<>> THEN <<>>
    ELSE (IF Head(dts) > since_ts THEN <<Head(out)>> ELSE <<>>)
            \o Later(Tail(out), Tail(dts), since_ts)

\* C11: in directory mode genArchiveRecords(since_ts) makes one pass and
\* then returns; what it hands to its consumer is the packets of that pass
\* whose dateTime is greater than since_ts, in the order of the pass; a
\* record whose timestamp is since_ts or earlier is never handed over, and
\* the file that held it is deleted all the same.
C11_ArchivePass ==
    LET a == gen["archive"]
    IN  /\ a.passes <= 1
        /\ a.pc = "done" => a.passes = 1 /\ running # "archive"
        /\ a.given = Later(a.out, a.dts, a.since)
        /\ \A i \in 1..Len(a.out) :
                LET line == strip(fs0[a.out[i].path][a.out[i].idx])
                IN  LineHas(line, "timestamp_utc") =>
                        /\ a.dts[i] = LineValue(line, "timestamp_utc")
                        /\ (\E j \in 1..Len(a.given) : a.given[j] = a.out[i])
                              <=> LineValue(line, "timestamp_utc") > a.since
        /\ a.pc = "done" =>
                \A p \in a.listed : ~hidden(p.name) => p \notin DOMAIN fs

\* a query since 1000 has returned: of the three records (1000, 1010, 1010)
\* the two later ones were handed over, and both files are gone
C11_Witness ==
    LET a == gen["archive"]
    IN  /\ a.pc = "done"
        /\ a.since = 1000
        /\ a.listed = {File(Root, NameA), File(Root, NameB)}
        /\ Len(a.out) = 3
        /\ a.given = <<[path |-> File(Root, NameA), idx |-> 2],
                       [path |-> File(Root, NameB), idx |-> 1]>>
        /\ fs = EmptyDir

---------------------------------------------------------------------------
(* Device mode: self.port is a serial port, opened with a timeout of three *)
(* seconds.  fd holds the lines the port has received and the driver has   *)
(* not read yet.                                                           *)

\* a character outside ASCII
GARBLED == [k |-> "x", v |-> 128]

\* bytes.decode('ascii') succeeds
ascii(raw) == \A i \in 1..Len(raw) : ~(raw[i].k = "x" /\ raw[i].v > 127)

\* lines 147-157: one turn of the loop up to its sleep, its yield or an
\* exception: readline() (an empty string after the timeout), decode, strip,
\* process_line
DevRead(g) ==
    /\ running = g
    /\ gen[g].pc = "read"
    /\ LET raw == IF fd = <<>> THEN <<>> ELSE Head(fd)
           line == strip(raw)
           res == process_line(line, last_rain, wind_dir_adjust, rawlogdir, rawlog, now)
       IN  /\ fd' = IF fd = <<>> THEN fd ELSE Tail(fd)
           /\ IF ~ascii(raw)
              THEN /\ gen' = [gen EXCEPT ![g].pc = "raised",
                                         ![g].err = "UnicodeDecodeError",
                                         ![g].lines = <<raw>>, ![g].slept = 0]
                   /\ running' = "none"
                   /\ UNCHANGED <<last_rain, rawlog, now, call, spoons>>
              ELSE IF line = <<>>
              THEN /\ gen' = [gen EXCEPT ![g].pc = "pause", ![g].last = "empty",
                                         ![g].lines = <<raw>>, ![g].slept = 0]
                   /\ now' = IF fd = <<>> THEN sleep(now, 3) ELSE now
                   /\ UNCHANGED <<last_rain, rawlog, call, spoons, running>>
              ELSE /\ last_rain' = res.last_rain
                   /\ rawlog' = res.rawlog
                   /\ spoons' = IF res.kind = "packet" /\ LineSpoons(line) # <<>>
                                THEN LineSpoons(line) ELSE spoons
                   /\ call' = [NoCall EXCEPT !.op = "process_line", !.line = line,
                                  !.kind = res.kind, !.packet = res.packet,
                                  !.pre_last_rain = last_rain, !.pre_rawlog = rawlog,
                                  !.pre_now = now, !.pre_spoons = spoons,
                                  !.ctx = g, !.id = gen[g].id]
                   /\ now' = now
                   /\ gen' = [gen EXCEPT
                                ![g].pc = IF res.kind = "None" THEN "pause"
                                          ELSE IF res.kind = "packet" THEN "yield"
                                          ELSE "raised",
                                ![g].err = IF res.kind \in {"None", "packet"}
                                           THEN @ ELSE res.kind,
                                ![g].last = res.kind,
                                ![g].lines = <<raw>>, ![g].slept = 0]
                   /\ running' = IF res.kind = "None" THEN running ELSE "none"
    /\ UNCHANGED <<wind_dir_adjust, rawlogdir, ncalls, fs, fs0, starts, emitted, dup,
                   directory_mode>>

\* lines 150-151 and 154-155: time.sleep(0.1) and continue; a tenth of a
\* second may or may not carry the clock over the next half second
DevPause(g) ==
    /\ running = g
    /\ gen[g].pc = "pause"
    /\ now' \in {now, Min(now + 1, Horizon)}
    /\ gen' = [gen EXCEPT ![g].pc = "read", ![g].slept = @ + 1]
    /\ UNCHANGED <<last_rain, wind_dir_adjust, rawlogdir, rawlog, call, spoons, ncalls,
                   fs, fs0, running, starts, emitted, dup, device>>

\* the station sends a line: it waits in the port until it is read
Receive(line) ==
    /\ ~directory_mode
    /\ Len(fd) < MaxBuffered
    /\ fd' = Append(fd, line)
    /\ UNCHANGED <<decoder, fs, fs0, gen, running, starts, emitted, dup, directory_mode>>

\* what a station may send: records, an empty line, noise, a record cut
\* short by noise, a line with a byte outside ASCII
DeviceLines ==
    {Object(<<Rain5, TS>>) \o <<NL>>, Object(<<Temp>>) \o <<NL>>, <<NL>>,
     <<JUNK, NL>>, <<LB, JUNK, RB, NL>>, <<GARBLED, NL>>}

\* a driver on a serial port, with the lines the station is going to send
InitDevice ==
    /\ last_rain = None
    /\ wind_dir_adjust = 180
    /\ rawlogdir \in BOOLEAN
    /\ rawlog = <<>>
    /\ now = NowStart
    /\ call = NoCall
    /\ spoons = <<>>
    /\ ncalls = 0
    /\ fs = EmptyDir
    /\ fs0 = fs
    /\ gen = [g \in Ctx |-> NoGen]
    /\ running = "none"
    /\ starts = 0
    /\ emitted = {}
    /\ dup = {}
    /\ directory_mode = FALSE
    /\ fd \in UNION {[1..n -> DeviceLines] : n \in 0..MaxLines}

NextDevice ==
    \/ \E ts \in SinceTimes : genArchiveRecords(ts)
    \/ genLoopPackets
    \/ \E g \in Ctx :
        \/ Pull(g)
        \/ DevRead(g)
        \/ DevPause(g)

SpecDevice == InitDevice /\ [][NextDevice]_vars

\* C12 (state): in device mode genArchiveRecords never gets past its first
\* next(): it ends there with NotImplementedError, having begun no pass and
\* handed over no packet.
C12_Raises ==
    LET a == gen["archive"]
    IN  /\ a.pc \in {"absent", "created", "raised"}
        /\ a.pc = "raised" =>
            /\ a.err = "NotImplementedError"
            /\ a.passes = 0
            /\ a.out = <<>>
            /\ a.given = <<>>

\* C12 (step): the next() that fails reads no line from the port, appends
\* nothing to the raw log, deletes no file and leaves the rain counter alone.
C12_Untouched ==
    (gen["archive"].pc = "created" /\ gen'["archive"].pc = "raised") =>
        UNCHANGED <<fd, rawlog, fs, last_rain>>

\* C12: in device mode genArchiveRecords(since_ts) fails with
\* NotImplementedError and yields no packet; before it fails it reads nothing
\* from the port, writes nothing to the raw log, deletes no file and leaves
\* the rain counter unchanged.
C12_DeviceArchive == []C12_Raises /\ [][C12_Untouched]_vars

\* the query failed on a driver whose stream had already decoded and logged a
\* rain record, with a line still waiting in the port
C12_Witness ==
    /\ gen["archive"].pc = "raised"
    /\ gen["archive"].err = "NotImplementedError"
    /\ gen["loop"].pc = "yield"
    /\ last_rain = <<5>>
    /\ Len(rawlog) = 1
    /\ fd # <<>>

---------------------------------------------------------------------------
(* SpecStream: the continuous stream of a serial-port driver, with a       *)
(* station that goes on sending and a consumer that goes on pulling.       *)

InitStream == InitDevice /\ ~rawlogdir /\ fd = <<>>

\* what the station sends here: a record, an empty line, noise, a record cut
\* short by noise, a line with a byte outside ASCII
StreamLines ==
    {Object(<<Rain5, TS>>) \o <<NL>>, <<NL>>, <<JUNK, NL>>, <<LB, JUNK, RB, NL>>,
     <<GARBLED, NL>>}

NextStream ==
    \/ gen["loop"].pc = "absent" /\ genLoopPackets
    \/ \E line \in StreamLines : Receive(line)
    \/ \E g \in Ctx :
        \/ Pull(g)
        \/ DevRead(g)
        \/ DevPause(g)

\* the stream stands before its readline()
AtRead == running = "loop" /\ gen["loop"].pc = "read"

\* the loop of genLoopPackets_device goes on once entered (it has no exit
\* and waits on nothing for longer than the timeout of the port), the
\* consumer goes on pulling, and the station sends a decodable line again
\* and again.  DevRead is enabled exactly in AtRead and every DevRead step
\* leaves AtRead, so []<>~AtRead is WF_vars(DevRead("loop")).
FairStream ==
    /\ []<>~AtRead
    /\ WF_vars(DevPause("loop"))
    /\ WF_vars(Pull("loop"))
    /\ SF_vars(\E line \in StreamLines : Decodable(line) /\ Receive(line))

SpecStream == InitStream /\ [][NextStream]_vars /\ FairStream

\* the characters of a line that are not whitespace
Text(raw) == SelectSeq(raw, LAMBDA t : t # SP)

\* a line of ASCII that is empty once trimmed, or that process_line passes
\* over
Skipped(raw) ==
    /\ \A i \in 1..Len(raw) : raw[i] # GARBLED
    /\ \/ Text(raw) = <<>>
       \/ Text(raw)[1] # LB
       \/ Text(raw)[Len(Text(raw))] # RB

\* C13 (state): the stream never returns; it sleeps after a line exactly when
\* the line is empty once trimmed or is passed over by the decoder; what it
\* yields is a packet, never None; and it is about to read without having
\* slept exactly when it was just entered or resumed by the consumer.
C13_Loop ==
    LET d == gen["loop"]
    IN  /\ d.pc \in {"absent", "created", "read", "pause", "yield", "raised"}
        /\ d.slept <= 1
        /\ d.pc \in {"pause", "yield", "raised"} =>
            /\ Len(d.lines) = 1
            /\ d.pc = "pause" <=> Skipped(d.lines[1])
        /\ d.pc = "yield" =>
            /\ call.kind = "packet"
            /\ call.packet # NoPacket
            /\ call.packet["usUnits"] = US
            /\ d.slept = 0
        /\ d.pc = "read" =>
            /\ d.slept = 1 => Len(d.lines) = 1 /\ Skipped(d.lines[1])
            /\ d.slept = 0 => d.lines = <<>> \/ ~Skipped(d.lines[1])

\* C13 (step): one turn of the loop takes one line from the port, and the
\* step that follows a yield is the consumer's next(), which leads to a read.
C13_OneLine ==
    /\ Len(fd') >= Len(fd) - 1
    /\ (gen["loop"].pc = "yield" /\ gen'["loop"].pc # "yield") =>
            gen'["loop"].pc \in {"read", "created"}

\* every line waiting in the port is one the stream decodes or passes over
Clean == \A i \in 1..Len(fd) : Skipped(fd[i]) \/ Decodable(fd[i])

\* C13 (progress): as long as the port delivers no line that makes the
\* decoder fail, every next() ends with a packet.
C13_Yields == ([]Clean) => ((running = "loop") ~> (gen["loop"].pc = "yield"))

\* C13: the device stream never ends by itself and never yields None; each
\* turn of its loop reads one line; it pauses 100 ms and reads again exactly
\* when the trimmed line is empty or the decoder returns None; a packet is
\* yielded, and after the consumer's next pull the stream reads with no
\* pause in between; while decodable lines keep arriving and the consumer
\* keeps pulling, every pull gets its packet.
C13_DeviceStream == []C13_Loop /\ [][C13_OneLine]_vars /\ C13_Yields

\* a second packet is being handed over, with a line of noise waiting in the
\* port: the stream yielded, was resumed, and read a record again
C13_Witness ==
    /\ gen["loop"].pc = "yield"
    /\ call.pre_last_rain = <<5>>
    /\ call.kind = "packet"
    /\ call.packet["rain"] = 0
    /\ fd = <<<<JUNK, NL>>>>

---------------------------------------------------------------------------
(* SpecLoop: the continuous stream of a directory driver with one          *)
(* consumer, while files go on appearing in the directory.                 *)

\* a file of one line, which json.loads rejects
CorruptFile == <<<<LB, JUNK, RB, NL>>>>

\* a file with no record: an empty line and noise
NoiseFile == <<<<NL>>, <<JUNK, NL>>>>

ArrivalPaths == {File(Root, NameA), File(DirS, NameA)}

ArrivalFiles == {RainFile, NoiseFile, CorruptFile}

\* a file appears under a name that is not in the directory
Arrive(p, content) ==
    /\ directory_mode
    /\ p \notin DOMAIN fs
    /\ fs' = (p :> content) @@ fs
    /\ fs0' = (p :> content) @@ fs0
    /\ UNCHANGED <<decoder, gen, running, starts, emitted, dup, device>>

InitLoop ==
    /\ InitDecoder
    /\ wind_dir_adjust = 180
    /\ ~rawlogdir

NextLoop ==
    \/ gen["loop"].pc = "absent" /\ genLoopPackets
    \/ \E p \in ArrivalPaths, content \in ArrivalFiles : Arrive(p, content)
    \/ \E g \in Ctx :
        \/ Pull(g)
        \/ Sleep(g)
        \/ Walk(g)
        \/ NextFile(g)
        \/ ReadLine(g)
        \/ Unlink(g)
        \/ PassEnd(g)

\* the stream stands before a line of the open file
AtLine ==
    /\ running = "loop"
    /\ gen["loop"].pc = "line"
    /\ gen["loop"].pos < Len(gen["loop"].lines)

\* the generator goes on once entered (its sleeps end, its files are finite)
\* and the consumer goes on pulling.  ReadLine is enabled exactly in AtLine
\* and a file has finitely many lines, so []<>~AtLine is
\* WF_vars(ReadLine("loop")).
FairLoop ==
    /\ []<>~AtLine
    /\ WF_vars(Pull("loop") \/ Sleep("loop") \/ Walk("loop") \/ NextFile("loop")
                \/ Unlink("loop") \/ PassEnd("loop"))

SpecLoop == InitLoop /\ [][NextLoop]_vars /\ FairLoop

\* C14 (state): the stream never returns, and it enumerates the directory
\* only after the pause of line 162.
C14_Paused ==
    LET d == gen["loop"]
    IN  /\ d.pc # "done"
        /\ (d.pc = "walk" /\ Root \in d.todo) => d.slept = 1

\* C14 (step): a file is deleted when the pass has yielded every decodable
\* line of it.
C14_Replayed ==
    \A p \in ArrivalPaths :
        (p \in DOMAIN fs /\ p \notin DOMAIN fs') =>
            \A idx \in 1..Len(fs[p]) :
                Decodable(fs[p][idx]) =>
                    \E i \in 1..Len(gen["loop"].out) :
                        gen["loop"].out[i] = [path |-> p, idx |-> idx]

\* the stream has ended with an exception
Failed == gen["loop"].pc = "raised"

\* C14 (progress): a pass begins again and again, whatever the directory
\* holds, unless the stream has ended with an exception.
C14_Again == (gen["loop"].pc # "absent") ~> (gen["loop"].pc = "sleep" \/ Failed)

\* C14 (progress): a file that is in the directory is deleted in the end,
\* unless the stream has ended with an exception.
C14_Deleted ==
    \A p \in ArrivalPaths :
        (gen["loop"].pc # "absent" /\ p \in DOMAIN fs) ~> (p \notin DOMAIN fs \/ Failed)

\* C14: genLoopPackets in directory mode repeats the pass for ever, also over
\* an empty directory, with the pause of one second before every
\* enumeration; under a consumer that keeps pulling, every non-hidden file
\* that appears at any time is replayed (each decodable line yielded) and
\* deleted in the end, unless the stream is ended first by an exception.
C14_LoopForever ==
    []C14_Paused /\ [][C14_Replayed]_vars /\ C14_Again /\ C14_Deleted

\* every line of a file is decodable
AllDecodable(lines) == \A i \in 1..Len(lines) : Decodable(lines[i])

\* C14 as the spec states it: every non-hidden file of decodable lines that
\* appears is deleted in the end.
C14_EveryFile ==
    \A p \in ArrivalPaths :
        (gen["loop"].pc # "absent" /\ p \in DOMAIN fs /\ AllDecodable(fs[p]))
            ~> (p \notin DOMAIN fs)

\* a second pass has deleted a file that appeared during the first, and a
\* third is about to enumerate the empty directory
C14_Witness ==
    /\ gen["loop"].pc = "walk"
    /\ gen["loop"].passes = 2
    /\ gen["loop"].slept = 1
    /\ fs = EmptyDir
    /\ emitted = {[path |-> File(DirS, NameA), idx |-> 1],
                  [path |-> File(DirS, NameA), idx |-> 2]}

---------------------------------------------------------------------------
(* Further properties of the directory replay (SpecDir) *)

\* the generator g stands at the yield of the packet of the last call
Yielding(g) ==
    /\ gen[g].pc = "yield"
    /\ call.ctx = g
    /\ call.id = gen[g].id
    /\ call.path = gen[g].path
    /\ call.idx = gen[g].pos

\* C15: in directory replay the packet being yielded was preceded by a pause
\* of one second exactly when its dateTime plus 600 is greater than the clock
\* at the time it was decoded (it is less than 600 seconds old; one that is
\* 600 seconds old or older goes out without a pause), and by no more than
\* one pause.
C15_Pacing ==
    \A g \in Ctx :
        /\ gen[g].slept <= 1
        /\ Yielding(g) =>
            /\ gen[g].slept = 1 <=> 2 * (call.packet["dateTime"] + 600) > call.pre_now
            /\ gen[g].slept = 1 => now >= Min(call.pre_now + 2, Horizon)

\* a record stamped 1006 decoded at 1605.0: 599 seconds old, yielded after a
\* pause, the record before it (1005, 600 seconds old) having had none
C15_Witness ==
    \E g \in Ctx :
        /\ Yielding(g)
        /\ call.packet["dateTime"] = 1006
        /\ call.pre_now = 2 * 1605
        /\ gen[g].slept = 1
        /\ now = 2 * 1606

---------------------------------------------------------------------------
(* Further properties of the decoder (SpecDecode) *)

\* the raw-log entry is the record of the line as received (raw names, raw
\* values), with timestamp_utc from the clock t if the line had none
LoggedAs(entry, line, t) ==
    /\ DOMAIN entry.line =
            {line[i].k : i \in {j \in 1..Len(line) : IsMember(line[j])}}
                \cup {"timestamp_utc"}
    /\ \A key \in DOMAIN entry.line :
            IF LineHas(line, key)
            THEN entry.line[key] = LineValue(line, key)
            ELSE 2 * entry.line[key] - t \in {0, 1}

\* C16 (state): with no raw-log directory nothing is written; every entry
\* has timestamp_utc; and the last call appended one entry, the record of its
\* line, if it returned a packet, and nothing otherwise.
C16_Logged ==
    /\ ~rawlogdir => rawlog = <<>>
    /\ Len(rawlog) <= ncalls
    /\ \A i \in 1..Len(rawlog) : "timestamp_utc" \in DOMAIN rawlog[i].line
    /\ call.op = "process_line" =>
        IF rawlogdir /\ call.kind = "packet"
        THEN /\ rawlog = Append(call.pre_rawlog, rawlog[Len(rawlog)])
             /\ LoggedAs(rawlog[Len(rawlog)], call.line, call.pre_now)
        ELSE rawlog = call.pre_rawlog

\* C16 (step): the log grows at its end, by one entry per call that returns
\* a packet, and by nothing else.
C16_Appends ==
    /\ SubSeq(rawlog', 1, Len(rawlog)) = rawlog
    /\ Len(rawlog') = Len(rawlog) +
            (IF ncalls' # ncalls /\ rawlogdir /\ call'.kind = "packet" THEN 1 ELSE 0)

\* C16: with a raw-log directory the number of lines appended is the number
\* of process_line calls that returned a packet, each line is the record
\* after the timestamp was added and before any conversion, and the lines
\* are in the order of the calls; with no raw-log directory nothing is
\* written.
C16_RawLog == []C16_Logged /\ [][C16_Appends]_vars

\* two calls, one of which returned a packet: one entry, with the wind
\* direction as received and the timestamp taken from the clock
C16_Witness ==
    /\ rawlogdir
    /\ wind_dir_adjust = 180
    /\ ncalls = 2
    /\ call.kind = "None"
    /\ Len(rawlog) = 1
    /\ DOMAIN rawlog[1].line = {"wind_direction_degrees", "timestamp_utc"}
    /\ rawlog[1].line["wind_direction_degrees"] = 200
    /\ rawlog[1].line["timestamp_utc"] = 1605

\* C17: self.last_rain is None until the first record with rain_spoons is
\* decoded, and from then on it is the rain_spoons of the last such record
\* decoded; a record without rain_spoons (with or without a wind direction
\* to adjust) and a line that is passed over leave it as it was.
C17_RainState ==
    /\ last_rain = spoons
    /\ call.op = "process_line" =>
        IF call.kind = "packet" /\ LineHas(call.line, "rain_spoons")
        THEN last_rain = <<LineValue(call.line, "rain_spoons")>>
        ELSE last_rain = call.pre_last_rain

\* a record with a wind direction and no rain, decoded after a rain record:
\* the counter is still the 5 of the rain record
C17_Witness ==
    /\ call.op = "process_line"
    /\ call.kind = "packet"
    /\ LineHas(call.line, "wind_direction_degrees")
    /\ ~LineHas(call.line, "rain_spoons")
    /\ call.pre_last_rain = <<5>>
    /\ last_rain = <<5>>

---------------------------------------------------------------------------
(* Further properties of the directory replay (SpecDir), continued *)

\* the file is a hidden entry: its name begins with '.', or the name of the
\* subdirectory it lies in does
HiddenEntry(p) == p.name[1] = DOT \/ (p.dir # Root /\ p.dir[1] = DOT)

\* C18: a file whose name begins with '.', and a file inside a subdirectory
\* whose name begins with '.', is never deleted and no packet is ever made
\* from it.
C18_HiddenSkipped ==
    \A p \in DOMAIN fs0 :
        HiddenEntry(p) =>
            /\ p \in DOMAIN fs
            /\ \A g \in Ctx : gen[g].path # p
            /\ \A key \in emitted : key.path # p

---------------------------------------------------------------------------
(* The deletion of a replayed file (SpecLoop) *)

\* the lines of file p that the pass in progress has yielded
YieldedOf(p) ==
    {gen["loop"].out[i].idx :
        i \in {j \in 1..Len(gen["loop"].out) : gen["loop"].out[j].path = p}}

\* C19 (state): while a packet is being handed to the consumer, the file it
\* came from is in the directory, as it was opened; also when the packet is
\* the last of the file.
C19_Exists ==
    gen["loop"].pc = "yield" =>
        /\ gen["loop"].path \in DOMAIN fs
        /\ fs[gen["loop"].path] = gen["loop"].lines

\* C19 (step): a file is deleted by the pass that has it open, when every
\* line of it has been read and every packet of it has been yielded and
\* pulled past (a file of no decodable line having yielded nothing); the
\* pass leaves a file only by deleting it, and opens the next only then.
C19_Order ==
    LET d == gen["loop"]
    IN  /\ \A p \in ArrivalPaths :
            (p \in DOMAIN fs /\ p \notin DOMAIN fs') =>
                /\ running = "loop"
                /\ d.path = p
                /\ d.pc = "line"
                /\ d.lines = fs[p]
                /\ d.pos = Len(d.lines)
                /\ YieldedOf(p) = {idx \in 1..Len(fs[p]) : Decodable(fs[p][idx])}
                /\ gen'["loop"].pc = "file"
        /\ (d.pc = "line" /\ gen'["loop"].pc \notin {"line", "yield", "raised"}) =>
                /\ d.path \in DOMAIN fs
                /\ d.path \notin DOMAIN fs'
        /\ (gen'["loop"].pc = "line" /\ gen'["loop"].path # d.path) => d.pc = "file"

\* C19: in directory replay a file is deleted only after every one of its
\* lines has been read and every packet decoded from it has been yielded and
\* pulled past, and before any line of the next file is decoded; so the file
\* exists while any of its packets is handed to the consumer, a file with no
\* valid line is deleted without yielding anything, and a consumer that
\* stops pulling at the last packet of a file leaves the file undeleted.
C19_DeleteAfter == []C19_Exists /\ [][C19_Order]_vars

\* the last packet of the second file of a pass is being handed over: that
\* file is still there, the file of noise before it was deleted and yielded
\* nothing
C19_Witness ==
    LET d == gen["loop"]
    IN  /\ d.pc = "yield"
        /\ d.path = File(DirS, NameA)
        /\ d.pos = Len(d.lines)
        /\ d.path \in DOMAIN fs
        /\ d.listed = {File(Root, NameA), File(DirS, NameA)}
        /\ fs0[File(Root, NameA)] = NoiseFile
        /\ File(Root, NameA) \notin DOMAIN fs
        /\ Len(d.out) = 2

====
